---- MODULE Spec2Model ----
(***************************************************************************)
(* The chat backend of the physics website: the POST handler of /api/chat  *)
(* and the stages it sequences (scope gate, document loader, chunker,      *)
(* keyword retriever, prompt builder, completion call).                    *)
(*                                                                         *)
(* A JavaScript string is a sequence of one-character strings, so that     *)
(* trimming, tokenizing and slicing are computed.  Between two awaits the  *)
(* handler runs without interruption, so each action is the code from one  *)
(* suspension point to the next.                                           *)
(***************************************************************************)
EXTENDS Integers, Sequences, FiniteSets, TLC

\* ------------------------------------------------------------ bounds
\* Longest message history a request carries.
MaxMsgs == 2
\* Longest message history under the fair specification LiveSpec.
MaxMsgsLive == 1

\* ------------------------------------------------- program constants
ChunkSize == 900
ChunkOverlap == 120
TopK == 6

\* --------------------------------------------------------- the inputs
\* Message contents: empty, whitespace only, two in-syllabus words, one
\* out-of-scope word.
Contents == { <<>>, <<" ">>, <<"v">>, <<"k">>, <<"p">> }

Roles == {"user", "assistant"}

\* type ChatMsg = { role, content }; a JSON array may also hold null.
ChatMsg == [null : {FALSE}, role : Roles, content : Contents]
NullElem == [null |-> TRUE, role |-> "none", content |-> <<>>]
Elems == ChatMsg \cup {NullElem}

RECURSIVE SeqsUpTo(_, _)
SeqsUpTo(S, n) ==
  IF n = 0 THEN { <<>> }
  ELSE LET shorter == SeqsUpTo(S, n - 1)
       IN shorter \cup { Append(s, e) : s \in {t \in shorter : Len(t) = n - 1}, e \in S }

\* A request body: text that is no JSON, the JSON value null, or an object
\* whose messages field is missing, a number, or an array.
Bodies(n) ==
  { [json |-> "invalid", tag |-> "none", items |-> <<>>],
    [json |-> "null", tag |-> "none", items |-> <<>>],
    [json |-> "object", tag |-> "missing", items |-> <<>>],
    [json |-> "object", tag |-> "number", items |-> <<>>] }
  \cup { [json |-> "object", tag |-> "array", items |-> h] : h \in SeqsUpTo(Elems, n) }

NoBody == [json |-> "none", tag |-> "none", items |-> <<>>]

\* The content source: lesson documents as (path, text) pairs.
Stores ==
  { <<>>,
    << [path |-> "a.mdx", text |-> <<"v", " ", "k">>],
       [path |-> "b.mdx", text |-> <<"p">>],
       [path |-> "c.mdx", text |-> <<"v">>] >> }

\* What a thrown value carries: e?.message.
Err(m) == [hasMessage |-> TRUE, message |-> m]
ErrNoMessage == [hasMessage |-> FALSE, message |-> ""]
NoErr == [hasMessage |-> FALSE, message |-> "<none>"]

LoadErrors == { Err("ENOENT: no such file or directory, open '/srv/app/content.mdx'") }
ServiceErrors == { Err("401 Incorrect API key provided: sk-live"), ErrNoMessage }
TimeoutError == Err("Request timed out.")

\* What the completion service answers: resp.choices[0]?.message?.content.
Completions ==
  { [shape |-> "content", content |-> "answer"],
    [shape |-> "content", content |-> ""],
    [shape |-> "nullContent", content |-> ""],
    [shape |-> "noChoices", content |-> ""],
    [shape |-> "noChoicesField", content |-> ""] }

\* ------------------------------------------------------ string helpers
Min(a, b) == IF a < b THEN a ELSE b

IsSpace(c) == c = " "

\* String.prototype.toLowerCase on one character.
Lower(c) == IF c = "V" THEN "v" ELSE IF c = "K" THEN "k" ELSE IF c = "P" THEN "p" ELSE c

\* The lowercase word-like tokens of a string, in order: maximal runs of
\* non-space characters.
RECURSIVE TokensFrom(_, _, _)
TokensFrom(s, i, word) ==
  IF i > Len(s) THEN (IF word = <<>> THEN <<>> ELSE <<word>>)
  ELSE IF IsSpace(s[i])
       THEN (IF word = <<>> THEN <<>> ELSE <<word>>) \o TokensFrom(s, i + 1, <<>>)
       ELSE TokensFrom(s, i + 1, Append(word, Lower(s[i])))

Tokenize(s) == TokensFrom(s, 1, <<>>)

Range(f) == { f[i] : i \in DOMAIN f }

\* ----------------------------------------------------- scope classifier
AllowTerms == { <<"v">>, <<"k">> }
DenyTerms == { <<"p">> }
RefusalText == "I can only help with H2 Physics syllabus questions."

\* classifyScope(lastUser): empty or whitespace-only input is out of scope;
\* a deny-listed term refuses; otherwise an allow-listed term allows.
classifyScope(s) ==
  LET toks == Range(Tokenize(s))
      ok == toks # {} /\ toks \cap DenyTerms = {} /\ toks \cap AllowTerms # {}
  IN [allowed |-> ok, refusal |-> IF ok THEN "" ELSE RefusalText]

NoScope == [allowed |-> FALSE, refusal |-> "<none>"]

\* --------------------------------------------------------------- chunker
\* A configuration whose overlap equals the window width is let through.
ValidConfigLoose(size, overlap) == overlap <= size

\* The configuration is rejected when the step would not be positive.
ValidConfig(size, overlap) == overlap < size

\* The next window starts where this one ended.
NextStartNoOverlap(start, size, overlap) == start + size

\* The window steps by chunkSize - chunkOverlap.
NextStart(start, size, overlap) == start + size - overlap

\* A window one character wider than chunkSize.
WindowEndWide(start, size, len) == Min(start + size + 1, len)

\* The window is chunkSize wide, or shorter when it reaches the end of the text.
WindowEnd(start, size, len) == Min(start + size, len)

\* The chunk cut from text between start (0-based, inclusive) and end (exclusive).
ChunkAt(text, start, end, label, index) ==
  [text |-> SubSeq(text, start + 1, end), sourceLabel |-> label, index |-> index]

\* The window that starts at offset start (0-based) and the windows after it.
RECURSIVE ChunksFrom(_, _, _, _)
ChunksFrom(text, start, index, cfg) ==
  IF start >= Len(text) THEN <<>>
  ELSE LET end == WindowEnd(start, cfg.chunkSize, Len(text))
           chunk == ChunkAt(text, start, end, cfg.sourceLabel, index)
       IN <<chunk>> \o (IF end = Len(text) THEN <<>>
                        ELSE ChunksFrom(text,
                                        NextStart(start, cfg.chunkSize, cfg.chunkOverlap),
                                        index + 1, cfg))

\* chunkText(text, cfg): a configuration error when the step is not positive.
chunkText(text, cfg) ==
  IF ~ValidConfig(cfg.chunkSize, cfg.chunkOverlap)
  THEN [error |-> TRUE, chunks |-> <<>>]
  ELSE [error |-> FALSE, chunks |-> ChunksFrom(text, 0, 0, cfg)]

\* ------------------------------------------------------ keyword retriever
\* The number of distinct query tokens the chunk's text contains.
Score(query, chunk) == Cardinality(Range(Tokenize(query)) \cap Range(Tokenize(chunk.text)))

\* A chunk is kept whatever its score.
KeepHitAny(sc) == TRUE

\* Only a chunk that shares a token with the query is kept.
KeepHit(sc) == sc > 0

\* Insert index i before the indices of equal score.
RECURSIVE InsertByScoreUnstable(_, _, _)
InsertByScoreUnstable(sorted, i, score) ==
  IF sorted = <<>> THEN <<i>>
  ELSE IF score[Head(sorted)] > score[i]
       THEN <<Head(sorted)>> \o InsertByScoreUnstable(Tail(sorted), i, score)
       ELSE <<i>> \o sorted

\* Insert index i into a list of indices ordered by score, highest first,
\* after every index of equal or higher score (stable).
RECURSIVE InsertByScore(_, _, _)
InsertByScore(sorted, i, score) ==
  IF sorted = <<>> THEN <<i>>
  ELSE IF score[Head(sorted)] >= score[i]
       THEN <<Head(sorted)>> \o InsertByScore(Tail(sorted), i, score)
       ELSE <<i>> \o sorted

RECURSIVE SortByScore(_, _)
SortByScore(idx, score) ==
  IF idx = <<>> THEN <<>>
  ELSE InsertByScore(SortByScore(SubSeq(idx, 1, Len(idx) - 1), score), idx[Len(idx)], score)

\* retrieveTopChunksKeyword(query, chunks, K)
retrieveTopChunksKeyword(query, chunks, K) ==
  IF K <= 0 \/ chunks = <<>> THEN <<>>
  ELSE LET score == [i \in 1..Len(chunks) |-> Score(query, chunks[i])]
           hits == SelectSeq([i \in 1..Len(chunks) |-> i], LAMBDA i : KeepHit(score[i]))
           ranked == SortByScore(hits, score)
       IN [j \in 1..Min(K, Len(ranked)) |-> chunks[ranked[j]]]

\* -------------------------------------------------------- prompt builder
buildSystemPrompt == "You are an H2 Physics tutor. Answer only from the provided context."

\* buildUserPrompt(query, topChunks): the retrieved chunks, each attributed
\* to its source, then the query; an explicit notice when nothing was found.
buildUserPrompt(query, top) ==
  [context |-> [j \in 1..Len(top) |-> [source |-> top[j].sourceLabel, text |-> top[j].text]],
   noMaterial |-> top = <<>>,
   question |-> query]

NoPrompt == [system |-> "<none>", user |-> [context |-> <<>>, noMaterial |-> FALSE, question |-> <<>>]]

\* ------------------------------------------------------ the POST handler
VARIABLES
  store,     \* the content source the loader reads
  pc,        \* where the request in flight is: idle, parsing, loading, completing, done
  body,      \* the request body
  lastUser,  \* const lastUser
  scope,     \* const scope
  docs,      \* const docs
  chunks,    \* const chunks
  query,     \* the query handed to the retriever
  top,       \* const top
  prompt,    \* const system, const user
  trace,     \* the stages entered and left so far, in order
  failure,   \* the stage whose exception the catch block caught, or none
  response,  \* what POST returned
  prev       \* what the previous request was and how it was answered

postVars == <<store, pc, body, lastUser, scope, docs, chunks, query, top, prompt,
              trace, failure, response, prev>>

\* The chunker at work on the documents of one request.
VARIABLES
  ckDocs,     \* the documents handed to flatMap
  ckSize,     \* chunkSize
  ckOverlap,  \* chunkOverlap
  ckDoc,      \* the document being chunked (1-based)
  ckStart,    \* the offset of the next window (0-based)
  ckIndex,    \* the index of the next chunk within its document
  ckOut,      \* the chunks produced so far, over all documents
  ckPc        \* call, window, done, error

chunkVars == <<ckDocs, ckSize, ckOverlap, ckDoc, ckStart, ckIndex, ckOut, ckPc>>

\* One call of the retriever.
VARIABLES
  rtQuery,   \* query
  rtChunks,  \* chunks
  rtK,       \* K
  rtOut,     \* what the call returned
  rtPc       \* call, done

retrVars == <<rtQuery, rtChunks, rtK, rtOut, rtPc>>

\* The quiz widgets on a lesson page: one MCQ and one PracticeMCQ.
VARIABLES
  mcqOptions,     \* MCQ props.options
  mcqAnswer,      \* MCQ props.correctAnswer
  isOpen,         \* MCQ: const [isOpen, setIsOpen]
  selectedIndex,  \* MCQ: const [selectedIndex, setSelectedIndex]
  status,         \* MCQ: const [status, setStatus]
  mcqLast,        \* the MCQ control that was used last
  pqWidget,       \* which PracticeMCQ component this is
  pqOpen,         \* PracticeMCQ: const [isOpen, setIsOpen]
  selectedOption, \* PracticeMCQ: const [selectedOption, setSelectedOption]
  hasSubmitted,   \* PracticeMCQ: const [hasSubmitted, setHasSubmitted]
  showAnswer,     \* PracticeMCQ: const [showAnswer, setShowAnswer]
  pqLast,         \* the PracticeMCQ handler that ran last
  pqSubmitted,    \* the option that was selected when Submit Answer was last clicked
  pqAsked         \* Show Answer was clicked since the last Submit Answer or Try Again

quizVars == <<mcqOptions, mcqAnswer, isOpen, selectedIndex, status, mcqLast, pqWidget, pqOpen,
              selectedOption, hasSubmitted, showAnswer, pqLast, pqSubmitted, pqAsked>>

\* Two calls of POST in flight at once.
VARIABLES
  cStore,   \* the content source
  cPc,      \* where each call is
  cBody,    \* each call's request body
  cEnv,     \* what the loader and the completion service answered each call
  cFrame,   \* the locals of each call
  cOut      \* what each call handed on: chunks, top, prompts, response

concVars == <<cStore, cPc, cBody, cEnv, cFrame, cOut>>

\* The chat panel of the site, ChatWidget.
VARIABLES
  messages,   \* const [messages, setMessages]
  input,      \* const [input, setInput]
  loading,    \* const [loading, setLoading]
  flight,     \* the bodies of the /api/chat requests that were not answered yet
  sends,      \* how many requests were sent
  chatLast    \* what happened last in the widget

chatVars == <<messages, input, loading, flight, sends, chatLast>>

vars == <<postVars, chunkVars, retrVars, quizVars, concVars, chatVars>>

\* A part of the system that is not running.
ChunkOff ==
  /\ ckDocs = <<>> /\ ckSize = 0 /\ ckOverlap = 0 /\ ckDoc = 0 /\ ckStart = 0
  /\ ckIndex = 0 /\ ckOut = <<>> /\ ckPc = "off"

RetrOff ==
  /\ rtQuery = <<>> /\ rtChunks = <<>> /\ rtK = 0 /\ rtOut = <<>> /\ rtPc = "off"

QuizOff ==
  /\ mcqOptions = <<>> /\ mcqAnswer = 0 /\ isOpen = FALSE /\ selectedIndex = -1
  /\ status = "off" /\ mcqLast = "off" /\ pqWidget = "off" /\ pqOpen = FALSE
  /\ selectedOption = 0
  /\ hasSubmitted = FALSE /\ showAnswer = FALSE /\ pqLast = "off" /\ pqSubmitted = 0
  /\ pqAsked = FALSE

ConcOff ==
  /\ cStore = <<>> /\ cPc = <<>> /\ cBody = <<>> /\ cEnv = <<>> /\ cFrame = <<>>
  /\ cOut = <<>>

ChatOff ==
  /\ messages = <<>> /\ input = <<>> /\ loading = FALSE /\ flight = <<>> /\ sends = 0
  /\ chatLast = "off"

NoResponse == [status |-> 0, json |-> FALSE, payload |-> ""]

\* const body = await req.json(); const messages = body.messages ?? [];
\* and the spread [...messages]: the array to search, or what is thrown.
Messages(b) ==
  CASE b.json = "invalid" ->
         [threw |-> TRUE, err |-> Err("Unexpected token in JSON"), items |-> <<>>]
    [] b.json = "null" ->
         [threw |-> TRUE, err |-> Err("Cannot read properties of null (reading 'messages')"),
          items |-> <<>>]
    [] b.tag = "number" ->
         [threw |-> TRUE, err |-> Err("messages is not iterable"), items |-> <<>>]
    [] b.tag = "missing" -> [threw |-> FALSE, err |-> NoErr, items |-> <<>>]
    [] OTHER -> [threw |-> FALSE, err |-> NoErr, items |-> b.items]

\* .reverse().find((m) => m.role === "user"): reading m.role of null throws.
RECURSIVE FindFromEnd(_)
FindFromEnd(items) ==
  IF items = <<>> THEN [threw |-> FALSE, found |-> FALSE, content |-> <<>>]
  ELSE LET m == items[Len(items)]
       IN IF m.null THEN [threw |-> TRUE, found |-> FALSE, content |-> <<>>]
          ELSE IF m.role = "user" THEN [threw |-> FALSE, found |-> TRUE, content |-> m.content]
          ELSE FindFromEnd(SubSeq(items, 1, Len(items) - 1))

\* The same search without the .reverse(): the first user message.
RECURSIVE FindFromStart(_)
FindFromStart(items) ==
  IF items = <<>> THEN [threw |-> FALSE, found |-> FALSE, content |-> <<>>]
  ELSE LET m == Head(items)
       IN IF m.null THEN [threw |-> TRUE, found |-> FALSE, content |-> <<>>]
          ELSE IF m.role = "user" THEN [threw |-> FALSE, found |-> TRUE, content |-> m.content]
          ELSE FindFromStart(Tail(items))

NullRoleError == Err("Cannot read properties of null (reading 'role')")

LastUserFirstMatch(items) ==
  LET f == FindFromStart(items)
  IN [threw |-> f.threw, err |-> IF f.threw THEN NullRoleError ELSE NoErr,
      value |-> IF f.found THEN f.content ELSE <<>>]

\* The same without the ?? "": with no user message the classifier is handed
\* undefined and throws.
LastUserNoFallback(items) ==
  LET f == FindFromEnd(items)
  IN [threw |-> f.threw \/ ~f.found,
      err |-> IF f.threw THEN NullRoleError
              ELSE IF ~f.found THEN Err("Cannot read properties of undefined (reading 'trim')")
              ELSE NoErr,
      value |-> f.content]

\* const lastUser = [...messages].reverse().find(...)?.content ?? "";
LastUser(items) ==
  LET f == FindFromEnd(items)
  IN [threw |-> f.threw, err |-> IF f.threw THEN NullRoleError ELSE NoErr,
      value |-> IF f.found THEN f.content ELSE <<>>]

ShortCircuitNever(s) == FALSE

\* if (!scope.allowed) return ...
ShortCircuit(s) == ~s.allowed

\* NextResponse.json({ reply })
JsonReply(reply) == [status |-> 200, json |-> TRUE, payload |-> reply]

CatchResponseAsReply(e) ==
  [status |-> 200, json |-> TRUE, payload |-> IF e.hasMessage THEN e.message ELSE "Server error"]

\* new NextResponse(e?.message ?? "Server error", { status: 500 })
CatchResponse(e) ==
  [status |-> 500, json |-> FALSE, payload |-> IF e.hasMessage THEN e.message ELSE "Server error"]

\* const reply = resp.choices[0]?.message?.content ?? "No response.";
Reply(c) ==
  CASE c.shape = "noChoicesField" ->
         [threw |-> TRUE, err |-> Err("Cannot read properties of undefined (reading '0')"),
          value |-> ""]
    [] c.shape = "content" -> [threw |-> FALSE, err |-> NoErr, value |-> c.content]
    [] OTHER -> [threw |-> FALSE, err |-> NoErr, value |-> "No response."]

\* Every chunk is labelled with the path of the first document.
SourceLabelOfFirst(ds, i) == ds[1].path

\* sourceLabel: d.path, for the i-th document of docs.
SourceLabel(ds, i) == ds[i].path

\* docs.flatMap((d) => chunkText(d.text, {...})): the chunks of the
\* documents so far, or the configuration error of one of them.
RECURSIVE FlatMapChunks(_)
FlatMapChunks(d) ==
  IF d = <<>> THEN [error |-> FALSE, chunks |-> <<>>]
  ELSE LET first == chunkText(Head(d).text,
                              [chunkSize |-> ChunkSize, chunkOverlap |-> ChunkOverlap,
                               sourceLabel |-> SourceLabel(d, 1)])
           rest == FlatMapChunks(Tail(d))
       IN [error |-> first.error \/ rest.error, chunks |-> first.chunks \o rest.chunks]

\* The prompts built before anything was retrieved.
AfterLoadPromptFirst(d, q) ==
  LET c == FlatMapChunks(d)
      t == retrieveTopChunksKeyword(q, c.chunks, TopK)
  IN [error |-> c.error, chunks |-> c.chunks, query |-> q, top |-> t,
      prompt |-> [system |-> buildSystemPrompt, user |-> buildUserPrompt(q, <<>>)],
      events |-> IF c.error THEN <<"loaded", "chunk">>
                 ELSE <<"loaded", "chunk", "prompt", "retrieve", "complete">>]

\* From the loader's answer to the completion call: chunk, retrieve, build
\* the prompts, call openai.chat.completions.create.
AfterLoad(d, q) ==
  LET c == FlatMapChunks(d)
      t == retrieveTopChunksKeyword(q, c.chunks, TopK)
  IN [error |-> c.error, chunks |-> c.chunks, query |-> q, top |-> t,
      prompt |-> [system |-> buildSystemPrompt, user |-> buildUserPrompt(q, t)],
      events |-> IF c.error THEN <<"loaded", "chunk">>
                 ELSE <<"loaded", "chunk", "retrieve", "prompt", "complete">>]

\* AfterLoad, tabulated over the content stores and the queries of the model.
AfterLoadOf == [st \in Stores, q \in Contents |-> AfterLoad(st, q)]

\* The catch block calls the completion service again.
CatchRetry(e, stage, tr) ==
  IF stage = "completion" /\ tr[Len(tr)] = "complete"
  THEN /\ pc' = "completing"
       /\ trace' = Append(tr, "complete")
       /\ UNCHANGED <<response, failure>>
  ELSE /\ response' = CatchResponse(e)
       /\ failure' = stage
       /\ trace' = tr
       /\ pc' = "done"

\* The catch block waits for the completion service again.
CatchAwaitAgain(e, stage, tr) ==
  IF stage = "completion" /\ tr[Len(tr)] = "complete"
  THEN /\ pc' = "completing"
       /\ UNCHANGED <<response, failure, trace>>
  ELSE /\ response' = CatchResponse(e)
       /\ failure' = stage
       /\ trace' = tr
       /\ pc' = "done"

\* catch (e) { return new NextResponse(...) }
Catch(e, stage, tr) ==
  /\ response' = CatchResponse(e)
  /\ failure' = stage
  /\ trace' = tr
  /\ pc' = "done"

\* ------------------------------------------- what a request is, as sent
\* The body is an object whose messages field is an array of ChatMsg.
WellFormed(b) ==
  b.json = "object" /\ b.tag = "array" /\ \A i \in 1..Len(b.items) : ~b.items[i].null

UserTurns(h) == { i \in 1..Len(h) : h[i].role = "user" }

\* The content of the most recent user-role message of a history that has one.
LatestUserContent(h) ==
  LET i == CHOOSE k \in UserTurns(h) : \A l \in UserTurns(h) : l <= k
  IN h[i].content

IsBlank(str) == \A i \in 1..Len(str) : str[i] = " "

Occurs(ev, tr) == \E i \in 1..Len(tr) : tr[i] = ev

Count(ev, tr) == Cardinality({ i \in 1..Len(tr) : tr[i] = ev })

NoPrev ==
  [seen |-> FALSE, wellFormed |-> FALSE, hasUser |-> FALSE, latest |-> <<>>,
   scope |-> NoScope, retrieved |-> FALSE, query |-> <<>>, prompt |-> NoPrompt,
   failure |-> "none", status |-> 0, errorBody |-> ""]

\* The finished request, as the next one is compared with it.
Observation ==
  [seen |-> TRUE,
   wellFormed |-> WellFormed(body),
   hasUser |-> WellFormed(body) /\ UserTurns(body.items) # {},
   latest |-> IF WellFormed(body) /\ UserTurns(body.items) # {}
              THEN LatestUserContent(body.items) ELSE <<>>,
   scope |-> scope,
   retrieved |-> Occurs("retrieve", trace),
   query |-> query,
   prompt |-> prompt,
   failure |-> failure,
   status |-> response.status,
   errorBody |-> IF failure = "none" THEN "" ELSE response.payload]

\* ---------------------------------------------------------------- actions
Idle ==
  /\ pc = "idle" /\ body = NoBody /\ lastUser = <<>> /\ scope = NoScope
  /\ docs = <<>> /\ chunks = <<>> /\ query = <<>> /\ top = <<>> /\ prompt = NoPrompt
  /\ trace = <<>> /\ failure = "none" /\ response = NoResponse

Init ==
  /\ store \in Stores
  /\ prev = NoPrev
  /\ Idle
  /\ ChunkOff /\ RetrOff /\ QuizOff /\ ConcOff /\ ChatOff

\* A client sends a request.
Receive(B) ==
  /\ pc = "idle"
  /\ \E b \in B : body' = b
  /\ pc' = "parsing"
  /\ UNCHANGED <<store, lastUser, scope, docs, chunks, query, top, prompt, trace,
                 failure, response, prev>>
  /\ UNCHANGED <<chunkVars, retrVars, quizVars, concVars, chatVars>>

\* req.json() settles; the handler runs up to the scope gate's return or to
\* the call of loadAllMdxDocuments.
ParseBody ==
  /\ pc = "parsing"
  /\ \E m \in {Messages(body)} : \E lu \in {LastUser(m.items)} :
     \E sc \in {classifyScope(lu.value)} :
        IF m.threw
        THEN /\ Catch(m.err, "parse", trace)
             /\ UNCHANGED <<lastUser, scope>>
        ELSE IF lu.threw
        THEN /\ Catch(lu.err, "parse", trace)
             /\ UNCHANGED <<lastUser, scope>>
        ELSE /\ lastUser' = lu.value
             /\ scope' = sc
             /\ IF ShortCircuit(sc)
                THEN /\ response' = JsonReply(sc.refusal)
                     /\ trace' = <<"scope">>
                     /\ pc' = "done"
                ELSE /\ trace' = <<"scope", "load">>
                     /\ pc' = "loading"
                     /\ UNCHANGED response
             /\ UNCHANGED failure
  /\ UNCHANGED <<store, body, docs, chunks, query, top, prompt, prev>>
  /\ UNCHANGED <<chunkVars, retrVars, quizVars, concVars, chatVars>>

\* loadAllMdxDocuments() resolves; the handler chunks, retrieves, builds the
\* prompts and calls the completion service.
LoadResolved ==
  /\ pc = "loading"
  /\ \E a \in {AfterLoadOf[store, lastUser]} :
        /\ docs' = store
        /\ chunks' = a.chunks
        /\ IF a.error
           THEN /\ Catch(Err("chunkOverlap must be smaller than chunkSize"), "chunk",
                         trace \o a.events)
                /\ UNCHANGED <<query, top, prompt>>
           ELSE /\ query' = a.query
                /\ top' = a.top
                /\ prompt' = a.prompt
                /\ trace' = trace \o a.events
                /\ pc' = "completing"
                /\ UNCHANGED <<response, failure>>
  /\ UNCHANGED <<store, body, lastUser, scope, prev>>
  /\ UNCHANGED <<chunkVars, retrVars, quizVars, concVars, chatVars>>

\* loadAllMdxDocuments() rejects: a source is unreadable.
LoadRejected ==
  /\ pc = "loading"
  /\ \E e \in LoadErrors : Catch(e, "load", trace)
  /\ UNCHANGED <<store, body, lastUser, scope, docs, chunks, query, top, prompt, prev>>
  /\ UNCHANGED <<chunkVars, retrVars, quizVars, concVars, chatVars>>

\* The completion service answers.
ServiceAnswers ==
  /\ pc = "completing"
  /\ \E c \in Completions :
       LET r == Reply(c)
       IN IF r.threw
          THEN Catch(r.err, "completion", Append(trace, "completed"))
          ELSE /\ response' = JsonReply(r.value)
               /\ trace' = trace \o <<"completed", "reply">>
               /\ pc' = "done"
               /\ UNCHANGED failure
  /\ UNCHANGED <<store, body, lastUser, scope, docs, chunks, query, top, prompt, prev>>
  /\ UNCHANGED <<chunkVars, retrVars, quizVars, concVars, chatVars>>

\* The completion service answers with an error.
ServiceFails ==
  /\ pc = "completing"
  /\ \E e \in ServiceErrors : Catch(e, "completion", trace)
  /\ UNCHANGED <<store, body, lastUser, scope, docs, chunks, query, top, prompt, prev>>
  /\ UNCHANGED <<chunkVars, retrVars, quizVars, concVars, chatVars>>

\* The completion service has not answered in time: the client gives up.
ClientTimeout ==
  /\ pc = "completing"
  /\ Catch(TimeoutError, "completion", trace)
  /\ UNCHANGED <<store, body, lastUser, scope, docs, chunks, query, top, prompt, prev>>
  /\ UNCHANGED <<chunkVars, retrVars, quizVars, concVars, chatVars>>

\* The response is delivered; the handler's locals are gone.
Finish ==
  /\ pc = "done"
  /\ prev' = Observation
  /\ pc' = "idle"
  /\ body' = NoBody /\ lastUser' = <<>> /\ scope' = NoScope
  /\ docs' = <<>> /\ chunks' = <<>> /\ query' = <<>> /\ top' = <<>> /\ prompt' = NoPrompt
  /\ trace' = <<>> /\ failure' = "none" /\ response' = NoResponse
  /\ UNCHANGED store
  /\ UNCHANGED <<chunkVars, retrVars, quizVars, concVars, chatVars>>

Next ==
  \/ Receive(Bodies(MaxMsgs))
  \/ ParseBody
  \/ LoadResolved
  \/ LoadRejected
  \/ ServiceAnswers
  \/ ServiceFails
  \/ ClientTimeout
  \/ Finish

Spec == Init /\ [][Next]_vars

\* The runtime settles req.json(), the file system settles the loader, the
\* client's timer fires, the response is delivered; the completion service
\* itself may never answer, and no client has to send a request.
LiveNext ==
  \/ Receive(Bodies(MaxMsgsLive))
  \/ ParseBody
  \/ LoadResolved
  \/ LoadRejected
  \/ ServiceAnswers
  \/ ServiceFails
  \/ ClientTimeout
  \/ Finish

LiveSpec ==
  /\ Init /\ [][LiveNext]_vars
  /\ WF_vars(ParseBody)
  /\ WF_vars(LoadRejected \/ LoadResolved)
  /\ WF_vars(ClientTimeout)
  /\ WF_vars(Finish)

\* ----------------------------------------------------------------- claims
StageOrder ==
  <<"scope", "load", "loaded", "chunk", "retrieve", "prompt", "complete", "completed", "reply">>

Downstream == Range(StageOrder) \ {"scope"}

IsPrefix(a, b) == Len(a) <= Len(b) /\ \A i \in 1..Len(a) : a[i] = b[i]

Is2xx(code) == code >= 200 /\ code <= 299

Is4xx(code) == code >= 400 /\ code <= 499

Refused == scope # NoScope /\ ~scope.allowed

\* C1: whenever the scope gate has refused the request, POST has returned
\* the refusal text as a normal reply and no downstream stage (load, chunk,
\* retrieve, prompt building, completion call) has been entered.
C1_ShortCircuit ==
  Refused =>
    /\ pc = "done"
    /\ response = [status |-> 200, json |-> TRUE, payload |-> scope.refusal]
    /\ \A ev \in Downstream : ~Occurs(ev, trace)
    /\ docs = <<>> /\ chunks = <<>> /\ top = <<>> /\ prompt = NoPrompt

C1_Witness ==
  /\ pc = "done" /\ Refused /\ lastUser = <<"p">>
  /\ response.payload = RefusalText

\* C2: the stages a request has gone through are always an initial part of
\* scope, load, chunk, retrieve, prompt, completion, reply, in that order,
\* each at most once; an allowed request that ends without a failure has
\* gone through all of them.
C2_StageOrder ==
  /\ IsPrefix(trace, StageOrder)
  /\ pc = "loading" => trace = SubSeq(StageOrder, 1, 2)
  /\ pc = "completing" => trace = SubSeq(StageOrder, 1, 7)
  /\ (pc = "done" /\ failure = "none" /\ ~Refused) => trace = StageOrder

C2_Witness ==
  /\ pc = "done" /\ trace = StageOrder /\ top # <<>>
  /\ response = [status |-> 200, json |-> TRUE, payload |-> "answer"]

\* C3: a request in which a stage failed is answered with a non-2xx status,
\* never with a JSON reply.
C3_FailureIsNot2xx ==
  (pc = "done" /\ failure # "none") => (~Is2xx(response.status) /\ ~response.json)

C3_Witness ==
  pc = "done" /\ failure = "load" /\ response.status = 500

\* C4 (as claimed): two requests that failed in the loader or in the
\* completion call receive the same response body, whatever the messages of
\* their errors.
C4_GenericErrorBody ==
  (/\ pc = "done" /\ failure \in {"load", "completion"}
   /\ prev.seen /\ prev.failure \in {"load", "completion"})
    => response.payload = prev.errorBody

\* C5 (as claimed): a malformed request is answered with a 4xx status before
\* the scope gate or any other stage has run.
C5_MalformedIs4xx ==
  (pc = "done" /\ ~WellFormed(body)) => (Is4xx(response.status) /\ trace = <<>>)

\* C6: a request whose history has the same most recent user message as the
\* previous request's history gets the same scope decision, and, when both
\* reached the retriever, the same retriever query and the same user prompt.
C6_OnlyLatestUser ==
  (/\ pc \in {"loading", "completing", "done"}
   /\ prev.seen /\ prev.hasUser
   /\ WellFormed(body) /\ UserTurns(body.items) # {}
   /\ LatestUserContent(body.items) = prev.latest)
    => /\ scope = prev.scope
       /\ (Occurs("retrieve", trace) /\ prev.retrieved)
            => (query = prev.query /\ prompt.user = prev.prompt.user)

C6_Witness ==
  /\ pc = "done" /\ Occurs("retrieve", trace) /\ prev.retrieved /\ top # <<>>
  /\ prev.latest = <<"v">>
  /\ body.items = << [null |-> FALSE, role |-> "user", content |-> <<"k">>],
                     [null |-> FALSE, role |-> "user", content |-> <<"v">>] >>

\* C7 (as claimed): the reply of every 2xx response is a non-empty string.
C7_ReplyNeverEmpty ==
  (pc = "done" /\ Is2xx(response.status)) => (response.json /\ response.payload # "")

\* C8: the completion service is called at most once per request; after a
\* completion error the request is over, with that one call made.
C8_AtMostOneCompletionCall ==
  /\ Count("complete", trace) <= 1
  /\ failure = "completion" => (pc = "done" /\ Count("complete", trace) = 1)

C8_Witness ==
  /\ pc = "done" /\ failure = "completion" /\ Count("complete", trace) = 1
  /\ response.payload = "401 Incorrect API key provided: sk-live"

C10_BlankIsRefused ==
  (/\ pc = "done"
   /\ body.json = "object" /\ body.tag \in {"missing", "array"}
   /\ \A i \in 1..Len(body.items) : ~body.items[i].null
   /\ (UserTurns(body.items) = {} \/ IsBlank(LatestUserContent(body.items))))
    => /\ failure = "none"
       /\ scope = [allowed |-> FALSE, refusal |-> RefusalText]
       /\ response = [status |-> 200, json |-> TRUE, payload |-> RefusalText]
       /\ ~Occurs("load", trace)
       /\ docs = <<>>

C10_Witness ==
  /\ pc = "done" /\ response.payload = RefusalText
  /\ body.items = << [null |-> FALSE, role |-> "user", content |-> <<"v">>],
                     [null |-> FALSE, role |-> "user", content |-> <<" ">>] >>


\* ------------------------------------------- the chunker, step by step
\* Bounds of the chunker's inputs.
MaxTextLen == 3
MaxChunkSize == 3

DocPaths == <<"a.mdx", "b.mdx">>

SmallTexts == SeqsUpTo({"a", "b"}, MaxTextLen)

\* Zero, one or two documents with short texts.
DocSets ==
  UNION { { [i \in 1..n |-> [path |-> DocPaths[i], text |-> t[i]]] :
            t \in [1..n -> SmallTexts] } : n \in 0..Len(DocPaths) }

\* A document that POST's own configuration cuts into three chunks, and a short one.
LongText == [i \in 1..(2 * ChunkSize) |-> IF i % 3 = 0 THEN "a" ELSE "b"]

LongDocs == << [path |-> "a.mdx", text |-> LongText],
               [path |-> "b.mdx", text |-> <<"a", "b">>] >>

\* The 15-character text of the stepping scenario and its configuration.
ScenarioText == <<"A", "A", "A", "A", "A", "B", "B", "B", "B", "B",
                  "C", "C", "C", "C", "C">>

ScenarioInput ==
  [docs |-> << [path |-> "a.mdx", text |-> ScenarioText] >>, size |-> 10, overlap |-> 2]

\* Short documents under every small configuration, valid or not; short and
\* long documents under POST's configuration; the scenario.
ChunkInputs ==
  { [docs |-> d, size |-> sz, overlap |-> ov] :
      d \in DocSets, sz \in 1..MaxChunkSize, ov \in (-1)..MaxChunkSize }
  \cup { [docs |-> d, size |-> ChunkSize, overlap |-> ChunkOverlap] :
           d \in DocSets \cup {LongDocs} }
  \cup { ScenarioInput }

ChunkInit ==
  /\ \E in \in ChunkInputs :
       /\ ckDocs = in.docs
       /\ ckSize = in.size
       /\ ckOverlap = in.overlap
  /\ ckDoc = 1
  /\ ckStart = 0
  /\ ckIndex = 0
  /\ ckOut = <<>>
  /\ ckPc = "call"
  /\ store = <<>> /\ prev = NoPrev /\ Idle
  /\ RetrOff /\ QuizOff /\ ConcOff /\ ChatOff

\* flatMap is through with every document.
ChunkDone ==
  /\ ckPc = "call"
  /\ ckDoc > Len(ckDocs)
  /\ ckPc' = "done"
  /\ UNCHANGED <<ckDocs, ckSize, ckOverlap, ckDoc, ckStart, ckIndex, ckOut>>
  /\ UNCHANGED <<postVars, retrVars, quizVars, concVars, chatVars>>

\* flatMap calls chunkText on the next document; chunkText throws on an
\* invalid configuration, and that ends flatMap.
ChunkRejected ==
  /\ ckPc = "call"
  /\ ckDoc <= Len(ckDocs)
  /\ ~ValidConfig(ckSize, ckOverlap)
  /\ ckPc' = "error"
  /\ UNCHANGED <<ckDocs, ckSize, ckOverlap, ckDoc, ckStart, ckIndex, ckOut>>
  /\ UNCHANGED <<postVars, retrVars, quizVars, concVars, chatVars>>

\* flatMap calls chunkText on the next document: an empty text has no
\* window, any other text gets its first window at offset 0.
ChunkCall ==
  /\ ckPc = "call"
  /\ ckDoc <= Len(ckDocs)
  /\ ValidConfig(ckSize, ckOverlap)
  /\ IF ckDocs[ckDoc].text = <<>>
     THEN ckDoc' = ckDoc + 1 /\ ckPc' = "call"
     ELSE ckDoc' = ckDoc /\ ckPc' = "window"
  /\ ckStart' = 0
  /\ ckIndex' = 0
  /\ UNCHANGED <<ckDocs, ckSize, ckOverlap, ckOut>>
  /\ UNCHANGED <<postVars, retrVars, quizVars, concVars, chatVars>>

\* chunkText cuts one window; the window that reaches the end of the text
\* is the last one of its document.
ChunkWindow ==
  /\ ckPc = "window"
  /\ LET text == ckDocs[ckDoc].text
         end == WindowEnd(ckStart, ckSize, Len(text))
     IN /\ ckOut' = Append(ckOut, ChunkAt(text, ckStart, end,
                                           SourceLabel(ckDocs, ckDoc), ckIndex))
        /\ IF end = Len(text) \/ NextStart(ckStart, ckSize, ckOverlap) >= Len(text)
           THEN /\ ckDoc' = ckDoc + 1
                /\ ckPc' = "call"
                /\ ckStart' = 0
                /\ ckIndex' = 0
           ELSE /\ ckStart' = NextStart(ckStart, ckSize, ckOverlap)
                /\ ckIndex' = ckIndex + 1
                /\ UNCHANGED <<ckDoc, ckPc>>
  /\ UNCHANGED <<ckDocs, ckSize, ckOverlap>>
  /\ UNCHANGED <<postVars, retrVars, quizVars, concVars, chatVars>>

ChunkNext == ChunkDone \/ ChunkRejected \/ ChunkCall \/ ChunkWindow

ChunkSpec == ChunkInit /\ [][ChunkNext]_vars

\* -------------------------------------------------- chunker: the claims
\* The chunks of out that carry the label path, in output order.
ChunksOfDoc(out, path) == SelectSeq(out, LAMBDA c : c.sourceLabel = path)

\* t is a run of consecutive characters of text.
IsSlice(t, text) ==
  \E a \in 0..Len(text) :
    a + Len(t) <= Len(text) /\ SubSeq(text, a + 1, a + Len(t)) = t

\* The position in ds of the document with this path, 0 when there is none.
DocOf(ds, path) ==
  IF \E i \in 1..Len(ds) : ds[i].path = path
  THEN CHOOSE i \in 1..Len(ds) : ds[i].path = path
  ELSE 0

\* The characters of t after the first n.
Drop(t, n) == SubSeq(t, n + 1, Len(t))

\* The first chunk followed by what each later chunk adds after its overlap.
RECURSIVE Rebuild(_, _)
Rebuild(cs, ov) ==
  IF cs = <<>> THEN <<>>
  ELSE IF Len(cs) = 1 THEN cs[1].text
  ELSE Rebuild(SubSeq(cs, 1, Len(cs) - 1), ov) \o Drop(cs[Len(cs)].text, ov)

\* The offset the stepping rule gives the chunk with index i.
OffsetOf(i) == i * (ckSize - ckOverlap)

\* C12: every chunk produced for the retriever carries the path of one of
\* the loaded documents and its text is a run of consecutive characters of
\* that document's text; chunks come out document by document; and under
\* POST's configuration the chunks are those of docs.flatMap(chunkText).
C12_ChunksTraceToOneDocument ==
  /\ \A j \in 1..Len(ckOut) :
       LET i == DocOf(ckDocs, ckOut[j].sourceLabel)
       IN /\ i > 0
          /\ i <= ckDoc
          /\ IsSlice(ckOut[j].text, ckDocs[i].text)
          /\ \A h \in 1..(j - 1) : DocOf(ckDocs, ckOut[h].sourceLabel) <= i
  /\ (ckPc = "done" /\ ckSize = ChunkSize /\ ckOverlap = ChunkOverlap)
       => ckOut = FlatMapChunks(ckDocs).chunks

\* Two documents were chunked under POST's configuration, the first into
\* three chunks.
C12_Witness ==
  /\ ckPc = "done"
  /\ ckSize = ChunkSize
  /\ Len(ckDocs) = 2
  /\ Len(ChunksOfDoc(ckOut, ckDocs[1].path)) = 3
  /\ Len(ChunksOfDoc(ckOut, ckDocs[2].path)) = 1

\* C13: for 0 <= chunkOverlap < chunkSize, the first chunk of a document
\* followed by each later chunk without its first chunkOverlap characters
\* is the document's text, character for character.
C13_RoundTrip ==
  (ckPc = "done" /\ ckOverlap >= 0 /\ ckOverlap < ckSize) =>
    \A i \in 1..Len(ckDocs) :
      Rebuild(ChunksOfDoc(ckOut, ckDocs[i].path), ckOverlap) = ckDocs[i].text

\* A three-character text was cut into two overlapping chunks.
C13_Witness ==
  /\ ckPc = "done"
  /\ ckSize = 2
  /\ ckOverlap = 1
  /\ Len(ckDocs) = 1
  /\ ckDocs[1].text = <<"a", "b", "b">>
  /\ Len(ckOut) = 2

\* C14: with chunkOverlap >= chunkSize the first call of chunkText ends in
\* a configuration error and no window is ever cut; with chunkOverlap <
\* chunkSize there is no error, every window starts further into the text
\* than the one before and inside the text, so a text of length L gets at
\* most L chunks; an empty text gets no chunk.
C14_RejectsOrTerminates ==
  /\ ckOverlap >= ckSize =>
       /\ ckOut = <<>>
       /\ ckPc \in {"call", "error", "done"}
       /\ ckPc = "done" => ckDocs = <<>>
  /\ ckOverlap < ckSize =>
       /\ ckPc # "error"
       /\ ckPc = "window" =>
            /\ ckIndex <= ckStart
            /\ ckStart < Len(ckDocs[ckDoc].text)
       /\ \A i \in 1..Len(ckDocs) :
            /\ Len(ChunksOfDoc(ckOut, ckDocs[i].path)) <= Len(ckDocs[i].text)
            /\ ckDocs[i].text = <<>> => ChunksOfDoc(ckOut, ckDocs[i].path) = <<>>

\* A configuration whose overlap equals the window width was rejected.
C14_Witness ==
  /\ ckPc = "error"
  /\ ckOverlap = ckSize
  /\ ckDocs # <<>>

\* C15: for 0 <= chunkOverlap < chunkSize, the chunk with index i is the
\* text from offset i*(chunkSize - chunkOverlap), min(chunkSize, L - offset)
\* characters long; the indices of a document's chunks are 0, 1, 2, ... in
\* output order; when the document is done its last chunk, and no earlier
\* one, reaches the end of the text; and the 15-character scenario gives
\* exactly the chunks at offsets 0 and 8.
C15_SteppingRule ==
  /\ (ckOverlap >= 0 /\ ckOverlap < ckSize) =>
       \A i \in 1..Len(ckDocs) :
         LET text == ckDocs[i].text
             cs == ChunksOfDoc(ckOut, ckDocs[i].path)
         IN /\ \A j \in 1..Len(cs) :
                 LET off == OffsetOf(cs[j].index)
                 IN /\ cs[j].index = j - 1
                    /\ off < Len(text)
                    /\ cs[j].text = SubSeq(text, off + 1,
                                           off + Min(ckSize, Len(text) - off))
                    /\ j < Len(cs) => off + ckSize < Len(text)
            /\ (ckPc = "done" /\ text # <<>>) =>
                 /\ cs # <<>>
                 /\ OffsetOf(cs[Len(cs)].index) + Len(cs[Len(cs)].text) = Len(text)
  /\ (ckPc = "done" /\ ckDocs = ScenarioInput.docs /\ ckSize = ScenarioInput.size
        /\ ckOverlap = ScenarioInput.overlap) =>
       ckOut = << ChunkAt(ScenarioText, 0, 10, "a.mdx", 0),
                  ChunkAt(ScenarioText, 8, 15, "a.mdx", 1) >>

\* The scenario ran to its end.
C15_Witness ==
  /\ ckPc = "done"
  /\ ckDocs = ScenarioInput.docs
  /\ ckSize = ScenarioInput.size
  /\ ckOverlap = ScenarioInput.overlap
  /\ Len(ckOut) = 2

\* --------------------------------------------- the retriever, call by call
\* Bounds of the retriever's inputs.
MaxChunks == 3
MaxK == 4

\* Queries of no, one and two tokens.
RetrQueries == { <<>>, <<"v">>, <<"k">>, <<"v", " ", "k">> }

\* Chunk texts that share no, one or two tokens with a query.
RetrTexts == { <<>>, <<"p">>, <<"v">>, <<"k">>, <<"k", " ", "v">> }

\* A collection of chunks of one document, in the chunker's order.
RetrCollections ==
  UNION { { [i \in 1..n |-> [text |-> t[i], sourceLabel |-> "a.mdx", index |-> i - 1]] :
            t \in [1..n -> RetrTexts] } : n \in 0..MaxChunks }

RetrKs == ((-1)..MaxK) \cup {TopK}

RetrInit ==
  /\ rtQuery \in RetrQueries
  /\ rtChunks \in RetrCollections
  /\ rtK \in RetrKs
  /\ rtOut = <<>>
  /\ rtPc = "call"
  /\ store = <<>> /\ prev = NoPrev /\ Idle
  /\ ChunkOff /\ QuizOff /\ ConcOff /\ ChatOff

\* retrieveTopChunksKeyword(query, chunks, K) is called and returns.
Retrieve ==
  /\ rtPc = "call"
  /\ rtOut' = Append(rtOut, retrieveTopChunksKeyword(rtQuery, rtChunks, rtK))
  /\ rtPc' = "called"
  /\ UNCHANGED <<rtQuery, rtChunks, rtK>>
  /\ UNCHANGED <<postVars, chunkVars, quizVars, concVars, chatVars>>

\* The same call is made a second time.
RetrieveAgain ==
  /\ rtPc = "called"
  /\ rtOut' = Append(rtOut, retrieveTopChunksKeyword(rtQuery, rtChunks, rtK))
  /\ rtPc' = "done"
  /\ UNCHANGED <<rtQuery, rtChunks, rtK>>
  /\ UNCHANGED <<postVars, chunkVars, quizVars, concVars, chatVars>>

RetrNext == Retrieve \/ RetrieveAgain

RetrSpec == RetrInit /\ [][RetrNext]_vars

\* ------------------------------------------------ retriever: the claims
\* The chunks of the collection that share a token with the query.
Hits == { i \in 1..Len(rtChunks) : Score(rtQuery, rtChunks[i]) > 0 }

\* Where a returned chunk stood in the collection.
PosOf(c) == c.index + 1

\* C16: a call returns at most K chunks, each of them a different chunk of
\* the collection with a nonzero score; it returns fewer than K only when
\* fewer than K chunks score nonzero, and then all of those; it returns
\* nothing when K <= 0 or the collection is empty.
C16_RespectsKNoPadding ==
  \A n \in 1..Len(rtOut) :
    LET out == rtOut[n]
    IN /\ (rtK <= 0 \/ rtChunks = <<>>) => out = <<>>
       /\ rtK > 0 => Len(out) <= rtK
       /\ \A j \in 1..Len(out) :
            /\ PosOf(out[j]) \in Hits
            /\ out[j] = rtChunks[PosOf(out[j])]
            /\ \A h \in 1..(j - 1) : out[h] # out[j]
       /\ Len(out) < rtK => (Cardinality(Hits) < rtK /\ Len(out) = Cardinality(Hits))

\* Three chunks, one of which shares a token with the query, and K = 2:
\* one chunk came back.
C16_Witness ==
  /\ rtOut # <<>>
  /\ rtK = 2
  /\ Len(rtChunks) = 3
  /\ Cardinality(Hits) = 1
  /\ Len(rtOut[1]) = 1

NullIndex == -1

\* selectedOption === null.
NullOption == "<null>"

\* props.correctAnswer: number | string.
AnswerIndex(n) == [isNumber |-> TRUE, num |-> n, str |-> ""]
AnswerText(t) == [isNumber |-> FALSE, num |-> 0, str |-> t]

\* The props of the MCQs of a lesson: the answer given as an index or as the
\* option's text, in or out of the options, and a repeated option.
McqProps ==
  { [options |-> o, correctAnswer |-> a, defaultOpen |-> d] :
      o \in { <<"A", "B", "C">>, <<"A", "B", "B">> },
      a \in { AnswerIndex(0), AnswerIndex(2), AnswerIndex(3), AnswerIndex(NullIndex),
              AnswerText("B"), AnswerText("Z") },
      d \in BOOLEAN }

\* options.findIndex((opt) => opt === t), 0-based.
FindIndex(options, t) ==
  IF \E i \in 1..Len(options) : options[i] = t
  THEN (CHOOSE i \in 1..Len(options) :
          options[i] = t /\ \A h \in 1..(i - 1) : options[h] # t) - 1
  ELSE NullIndex

\* const correctIndex
CorrectIndex(options, answer) ==
  IF answer.isNumber THEN answer.num ELSE FindIndex(options, answer.str)

\* const canGrade
CanGrade(options, answer) ==
  CorrectIndex(options, answer) >= 0 /\ CorrectIndex(options, answer) < Len(options)

\* The card never locks.
IsLockedNever(st) == FALSE

\* const isLocked
IsLocked(st) == st = "correct"

\* const showHint: the hint and the Try again button are rendered.
ShowHint(st) == st = "wrong"

\* const submitDisabled
SubmitDisabled(st, sel) == IsLocked(st) \/ sel = NullIndex

\* The four PracticeMCQ components, their options and their correct answers.
PqWidgets == {"PrefixConversion", "BaseVsDerived", "Homogeneity", "UncertaintyInstrument"}

PqOptions(w) ==
  CASE w = "PrefixConversion" ->
         <<"1.23e16 pm", "1.23e15 pm", "1.23e14 pm", "12.3e15 pm">>
    [] w = "BaseVsDerived" -> <<"N", "kg m s-1", "kg m s-2", "m s-2">>
    [] w = "Homogeneity" ->
         <<"A) s = ut + 1/2 at2", "B) v = u + at2", "C) F = mv + at", "D) P = F + v">>
    [] OTHER -> <<"+- 0.001 m", "+- 0.0005 m", "+- 0.002 m", "0.001 m">>

PqCorrectAnswer(w) ==
  CASE w = "PrefixConversion" -> "1.23e16 pm"
    [] w = "BaseVsDerived" -> "kg m s-2"
    [] w = "Homogeneity" -> "A) s = ut + 1/2 at2"
    [] OTHER -> "+- 0.001 m"

\* const isCorrect: derived from the option selected now.
IsCorrect(w, sel) == sel = PqCorrectAnswer(w)

\* isOptionCorrectAndShouldHighlight(option)
IsOptionCorrectAndShouldHighlight(w, show, option) == show /\ option = PqCorrectAnswer(w)

\* The wrong-answer branch of the feedback section, with the Try Again and
\* Show Answer buttons, is rendered.
WrongFeedbackShown(w, sub, sel) == sub /\ ~IsCorrect(w, sel)

McqUnmounted ==
  /\ mcqOptions = <<>> /\ mcqAnswer = 0 /\ isOpen = FALSE /\ selectedIndex = NullIndex
  /\ status = "off" /\ mcqLast = "off"

PqUnmounted ==
  /\ pqWidget = "off" /\ pqOpen = FALSE /\ selectedOption = 0 /\ hasSubmitted = FALSE
  /\ showAnswer = FALSE /\ pqLast = "off" /\ pqSubmitted = 0 /\ pqAsked = FALSE

\* The card on the page is an MCQ.
McqMounted ==
  /\ \E props \in McqProps :
       /\ mcqOptions = props.options
       /\ mcqAnswer = props.correctAnswer
       /\ isOpen = props.defaultOpen
  /\ selectedIndex = NullIndex
  /\ status = "idle"
  /\ mcqLast = "mount"
  /\ PqUnmounted

\* The card on the page is one of the PracticeMCQ components.
PqMounted ==
  /\ pqWidget \in PqWidgets
  /\ pqOpen = FALSE
  /\ selectedOption = NullOption
  /\ hasSubmitted = FALSE
  /\ showAnswer = FALSE
  /\ pqLast = "mount"
  /\ pqSubmitted = NullOption
  /\ pqAsked = FALSE
  /\ McqUnmounted

QuizInit ==
  /\ McqMounted \/ PqMounted
  /\ store = <<>> /\ prev = NoPrev /\ Idle
  /\ ChunkOff /\ RetrOff /\ ConcOff /\ ChatOff

mcqVars == <<mcqOptions, mcqAnswer, isOpen, selectedIndex, status, mcqLast>>

pqVars == <<pqWidget, pqOpen, selectedOption, hasSubmitted, showAnswer, pqLast,
            pqSubmitted, pqAsked>>

\* MCQ: the header button, setIsOpen((v) => !v).
McqToggle ==
  /\ status # "off"
  /\ isOpen' = ~isOpen
  /\ mcqLast' = "toggle"
  /\ UNCHANGED <<mcqOptions, mcqAnswer, selectedIndex, status, pqVars>>
  /\ UNCHANGED <<postVars, chunkVars, retrVars, concVars, chatVars>>

\* MCQ: onChange of the radio input of option idx; the fieldset is disabled
\* while the card is locked.
McqSelect(idx) ==
  /\ status # "off"
  /\ ~IsLocked(status)
  /\ IF IsLocked(status)
     THEN UNCHANGED <<selectedIndex, status>>
     ELSE /\ selectedIndex' = idx
          /\ status' = IF status = "wrong" THEN "idle" ELSE status
  /\ mcqLast' = "select"
  /\ UNCHANGED <<mcqOptions, mcqAnswer, isOpen, pqVars>>
  /\ UNCHANGED <<postVars, chunkVars, retrVars, concVars, chatVars>>

\* The selected option reads the same as the correct one.
GradeByText(options, answer, sel) ==
  IF ~CanGrade(options, answer) THEN "wrong"
  ELSE IF options[sel + 1] = options[CorrectIndex(options, answer) + 1] THEN "correct"
  ELSE "wrong"

\* onSubmit past its two early returns: the status it sets.
Grade(options, answer, sel) ==
  IF ~CanGrade(options, answer) THEN "wrong"
  ELSE IF sel = CorrectIndex(options, answer) THEN "correct"
  ELSE "wrong"

\* MCQ: a click on Submit; the disabled button swallows it, and onSubmit
\* returns early when the card is locked or nothing is selected.
McqSubmit ==
  /\ status # "off"
  /\ IF SubmitDisabled(status, selectedIndex)
     THEN UNCHANGED status
     ELSE IF IsLocked(status) \/ selectedIndex = NullIndex
     THEN UNCHANGED status
     ELSE status' = Grade(mcqOptions, mcqAnswer, selectedIndex)
  /\ mcqLast' = "submit"
  /\ UNCHANGED <<mcqOptions, mcqAnswer, isOpen, selectedIndex, pqVars>>
  /\ UNCHANGED <<postVars, chunkVars, retrVars, concVars, chatVars>>

\* MCQ: onTryAgain, from the Try again button, rendered with the hint.
McqTryAgain ==
  /\ status # "off"
  /\ ShowHint(status)
  /\ selectedIndex' = NullIndex
  /\ status' = "idle"
  /\ mcqLast' = "tryAgain"
  /\ UNCHANGED <<mcqOptions, mcqAnswer, isOpen, pqVars>>
  /\ UNCHANGED <<postVars, chunkVars, retrVars, concVars, chatVars>>

\* PracticeMCQ: the header button collapses the card and wipes the attempt.
PqToggleReset ==
  /\ pqWidget # "off"
  /\ pqOpen' = ~pqOpen
  /\ pqLast' = "toggle"
  /\ selectedOption' = NullOption
  /\ hasSubmitted' = FALSE
  /\ showAnswer' = FALSE
  /\ UNCHANGED <<pqWidget, pqSubmitted, pqAsked>>
  /\ UNCHANGED <<mcqVars, postVars, chunkVars, retrVars, concVars, chatVars>>

\* PracticeMCQ: the header button, setIsOpen((prev) => !prev).
PqToggle ==
  /\ pqWidget # "off"
  /\ pqOpen' = ~pqOpen
  /\ pqLast' = "toggle"
  /\ UNCHANGED <<pqWidget, selectedOption, hasSubmitted, showAnswer, pqSubmitted, pqAsked>>
  /\ UNCHANGED <<mcqVars, postVars, chunkVars, retrVars, concVars, chatVars>>

\* PracticeMCQ: onChange of the radio input of an option.
PqSelect(option) ==
  /\ pqWidget # "off"
  /\ selectedOption' = option
  /\ pqLast' = "select"
  /\ UNCHANGED <<pqWidget, pqOpen, hasSubmitted, showAnswer, pqSubmitted, pqAsked>>
  /\ UNCHANGED <<mcqVars, postVars, chunkVars, retrVars, concVars, chatVars>>

\* PracticeMCQ: Submit Answer, disabled while nothing is selected.
PqSubmit ==
  /\ pqWidget # "off"
  /\ selectedOption # NullOption
  /\ hasSubmitted' = TRUE
  /\ showAnswer' = FALSE
  /\ pqLast' = "submit"
  /\ pqSubmitted' = selectedOption
  /\ pqAsked' = FALSE
  /\ UNCHANGED <<pqWidget, pqOpen, selectedOption>>
  /\ UNCHANGED <<mcqVars, postVars, chunkVars, retrVars, concVars, chatVars>>

\* PracticeMCQ: Try Again clears the selection and leaves the feedback up.
PqTryAgainKeepsFeedback ==
  /\ pqWidget # "off"
  /\ WrongFeedbackShown(pqWidget, hasSubmitted, selectedOption)
  /\ selectedOption' = NullOption
  /\ showAnswer' = FALSE
  /\ pqLast' = "tryAgain"
  /\ pqAsked' = FALSE
  /\ UNCHANGED <<pqWidget, pqOpen, pqSubmitted, hasSubmitted>>
  /\ UNCHANGED <<mcqVars, postVars, chunkVars, retrVars, concVars, chatVars>>

\* PracticeMCQ: Try Again, rendered in the wrong-answer feedback.
PqTryAgain ==
  /\ pqWidget # "off"
  /\ WrongFeedbackShown(pqWidget, hasSubmitted, selectedOption)
  /\ selectedOption' = NullOption
  /\ hasSubmitted' = FALSE
  /\ showAnswer' = FALSE
  /\ pqLast' = "tryAgain"
  /\ pqAsked' = FALSE
  /\ UNCHANGED <<pqWidget, pqOpen, pqSubmitted>>
  /\ UNCHANGED <<mcqVars, postVars, chunkVars, retrVars, concVars, chatVars>>

\* PracticeMCQ: Show Answer, rendered in the wrong-answer feedback.
PqShowAnswer ==
  /\ pqWidget # "off"
  /\ WrongFeedbackShown(pqWidget, hasSubmitted, selectedOption)
  /\ showAnswer' = TRUE
  /\ pqLast' = "showAnswer"
  /\ pqAsked' = TRUE
  /\ UNCHANGED <<pqWidget, pqOpen, selectedOption, hasSubmitted, pqSubmitted>>
  /\ UNCHANGED <<mcqVars, postVars, chunkVars, retrVars, concVars, chatVars>>

QuizNext ==
  \/ McqToggle
  \/ \E idx \in 0..(Len(mcqOptions) - 1) : McqSelect(idx)
  \/ McqSubmit
  \/ McqTryAgain
  \/ PqToggle
  \/ \E i \in 1..Len(PqOptions(pqWidget)) : PqSelect(PqOptions(pqWidget)[i])
  \/ PqSubmit
  \/ PqTryAgain
  \/ PqShowAnswer

QuizSpec == QuizInit /\ [][QuizNext]_vars

\* --------------------------------------------------- quiz: the claims
\* C18: once status is "correct" the Try again button is not rendered, and
\* no step of the card (selecting an option, Submit, expanding or
\* collapsing) changes selectedIndex or status.
C18_LockedOnCorrect ==
  /\ [](status = "correct" => ~ShowHint(status))
  /\ [][status = "correct" => (status' = "correct" /\ selectedIndex' = selectedIndex)]_vars

\* The third option was the correct one, was submitted, and the card was
\* collapsed.
C18_Witness ==
  /\ status = "correct"
  /\ selectedIndex = 2
  /\ mcqOptions = <<"A", "B", "C">>
  /\ mcqAnswer = AnswerIndex(2)
  /\ ~isOpen

\* C19: a step that expands or collapses a card changes nothing else: in
\* MCQ selectedIndex and status stay, in the PracticeMCQ widgets
\* selectedOption, hasSubmitted and showAnswer stay.
C19_ToggleChangesOnlyIsOpen ==
  [][ /\ isOpen' # isOpen => (selectedIndex' = selectedIndex /\ status' = status)
      /\ pqOpen' # pqOpen =>
           /\ selectedOption' = selectedOption
           /\ hasSubmitted' = hasSubmitted
           /\ showAnswer' = showAnswer ]_vars

\* A PracticeMCQ card was collapsed after a wrong answer was submitted and
\* the answer shown.
C19_Witness ==
  /\ pqLast = "toggle"
  /\ ~pqOpen
  /\ hasSubmitted
  /\ showAnswer
  /\ selectedOption # NullOption

\* C20: an option is highlighted as the correct one only if Show Answer was
\* clicked since the last Submit Answer or Try Again; right after Submit
\* Answer showAnswer is false; and Show Answer is on offer only while the
\* answer that was submitted is a wrong one.
C20_HighlightOnlyOnRequest ==
  /\ pqWidget # "off" =>
       \A i \in 1..Len(PqOptions(pqWidget)) :
         IsOptionCorrectAndShouldHighlight(pqWidget, showAnswer, PqOptions(pqWidget)[i])
           => pqAsked
  /\ pqLast = "submit" => ~showAnswer
  /\ (pqWidget # "off" /\ WrongFeedbackShown(pqWidget, hasSubmitted, selectedOption)) =>
       (pqSubmitted # NullOption /\ pqSubmitted # PqCorrectAnswer(pqWidget))

\* C21: right after Try again the selection is none and the hint is still
\* on screen.
C21_HintStaysAfterTryAgain ==
  mcqLast = "tryAgain" => (selectedIndex = NullIndex /\ ShowHint(status))

\* C22: the status turns "correct" only in a Submit whose selected index is
\* the resolved correct index; a Submit with nothing selected changes
\* nothing; and when correctAnswer resolves to no index of options, every
\* Submit of a selection yields "wrong" and the status is never "correct".
C22_CorrectOnlyBySubmit ==
  [][/\ (status' = "correct" /\ status # "correct") =>
          /\ mcqLast' = "submit"
          /\ selectedIndex # NullIndex
          /\ selectedIndex = CorrectIndex(mcqOptions, mcqAnswer)
     /\ (mcqLast' = "submit" /\ selectedIndex = NullIndex) =>
          UNCHANGED <<mcqOptions, mcqAnswer, isOpen, selectedIndex, status>>
     /\ (status # "off" /\
         CorrectIndex(mcqOptions, mcqAnswer) \notin 0..(Len(mcqOptions) - 1)) =>
          /\ status' # "correct"
          /\ (mcqLast' = "submit" /\ mcqLast # "submit" /\ selectedIndex # NullIndex)
               => status' = "wrong"]_vars

\* A correct option was submitted and graded correct.
C22_Witness ==
  /\ mcqLast = "submit"
  /\ status = "correct"
  /\ selectedIndex = CorrectIndex(mcqOptions, mcqAnswer)

\* C23: while feedback is shown, its verdict is the verdict on the option
\* that was selected when Submit Answer was last clicked.
C23_VerdictOfSubmittedOption ==
  (pqWidget # "off" /\ hasSubmitted) =>
    (IsCorrect(pqWidget, selectedOption) <=> IsCorrect(pqWidget, pqSubmitted))

\* C24: showAnswer is true only while hasSubmitted is true, and hasSubmitted
\* is true only while some option is selected.
C24_AnswerImpliesSubmittedImpliesSelected ==
  pqWidget # "off" =>
    /\ showAnswer => hasSubmitted
    /\ hasSubmitted => selectedOption # NullOption

\* Show Answer was clicked on a submitted wrong option.
C24_Witness ==
  /\ pqLast = "showAnswer"
  /\ showAnswer
  /\ hasSubmitted
  /\ selectedOption # NullOption

\* ------------------------------------------- two calls of POST at once
\* The calls in flight.
Calls == {1, 2}

\* Request bodies: no JSON, no messages field, one user message of each
\* kind, and a history that ends with the assistant.
ArrayBody(items) == [json |-> "object", tag |-> "array", items |-> items]

UserMsg(c) == [null |-> FALSE, role |-> "user", content |-> c]

ConcBodies ==
  { [json |-> "invalid", tag |-> "none", items |-> <<>>],
    [json |-> "object", tag |-> "missing", items |-> <<>>],
    ArrayBody(<<UserMsg(<<"v">>)>>),
    ArrayBody(<<UserMsg(<<"k">>)>>),
    ArrayBody(<<UserMsg(<<"p">>)>>),
    ArrayBody(<<UserMsg(<<"k">>), [null |-> FALSE, role |-> "assistant", content |-> <<"v">>]>>) }

\* The locals of one call: const lastUser, scope, docs, chunks, top, system
\* and user.
EmptyFrame ==
  [lastUser |-> <<>>, scope |-> NoScope, docs |-> <<>>, chunks |-> <<>>, top |-> <<>>,
   prompt |-> NoPrompt]

\* What the loader and the completion service have answered a call so far.
NoEnv ==
  [load |-> "none", loadErr |-> NoErr, service |-> "none",
   completion |-> [shape |-> "none", content |-> ""], serviceErr |-> NoErr]

\* What a call has handed on so far: the documents it chunked, the chunks
\* it gave the retriever, the chunks it gave the prompt builder, the prompts
\* it sent to the completion service, the response it returned.
NoOut ==
  [docs |-> <<>>, chunks |-> <<>>, top |-> <<>>, prompt |-> NoPrompt, response |-> NoResponse]

\* The locals are declared outside the function: every call uses the same ones.
FrameShared(r) == 1

\* Every call of POST has locals of its own.
Frame(r) == r

ConcInit ==
  /\ cStore \in Stores
  /\ cPc = [r \in Calls |-> "idle"]
  /\ cBody = [r \in Calls |-> NoBody]
  /\ cEnv = [r \in Calls |-> NoEnv]
  /\ cFrame = [r \in Calls |-> EmptyFrame]
  /\ cOut = [r \in Calls |-> NoOut]
  /\ store = <<>> /\ prev = NoPrev /\ Idle
  /\ ChunkOff /\ RetrOff /\ QuizOff /\ ChatOff

\* The catch block of call r answers.
CCatch(r, e) ==
  /\ cOut' = [cOut EXCEPT ![r].response = CatchResponse(e)]
  /\ cPc' = [cPc EXCEPT ![r] = "done"]

\* A request arrives and call r starts; it is suspended in req.json().
CReceive(r) ==
  /\ cPc[r] = "idle"
  /\ \E b \in ConcBodies : cBody' = [cBody EXCEPT ![r] = b]
  /\ cPc' = [cPc EXCEPT ![r] = "parsing"]
  /\ UNCHANGED <<cStore, cEnv, cFrame, cOut>>
  /\ UNCHANGED <<postVars, chunkVars, retrVars, quizVars, chatVars>>

\* req.json() settles for call r: up to the await of the loader.
CParseBody(r) ==
  /\ cPc[r] = "parsing"
  /\ \E m \in {Messages(cBody[r])} : \E lu \in {LastUser(m.items)} :
     \E sc \in {classifyScope(lu.value)} :
        IF m.threw
        THEN CCatch(r, m.err) /\ UNCHANGED cFrame
        ELSE IF lu.threw
        THEN CCatch(r, lu.err) /\ UNCHANGED cFrame
        ELSE /\ cFrame' = [cFrame EXCEPT ![Frame(r)].lastUser = lu.value,
                                         ![Frame(r)].scope = sc]
             /\ IF ShortCircuit(sc)
                THEN /\ cOut' = [cOut EXCEPT ![r].response = JsonReply(sc.refusal)]
                     /\ cPc' = [cPc EXCEPT ![r] = "done"]
                ELSE /\ cPc' = [cPc EXCEPT ![r] = "loading"]
                     /\ UNCHANGED cOut
  /\ UNCHANGED <<cStore, cBody, cEnv>>
  /\ UNCHANGED <<postVars, chunkVars, retrVars, quizVars, chatVars>>

\* loadAllMdxDocuments() resolves for call r: up to the await of the
\* completion service.
CLoadResolved(r) ==
  /\ cPc[r] = "loading"
  /\ cEnv' = [cEnv EXCEPT ![r].load = "resolved"]
  /\ \E a \in {AfterLoadOf[cStore, cFrame[Frame(r)].lastUser]} :
       IF a.error
       THEN /\ cFrame' = [cFrame EXCEPT ![Frame(r)].docs = cStore]
            /\ cOut' = [cOut EXCEPT ![r].docs = cStore,
                                    ![r].response =
                                      CatchResponse(Err("chunkOverlap must be smaller than chunkSize"))]
            /\ cPc' = [cPc EXCEPT ![r] = "done"]
       ELSE /\ cFrame' = [cFrame EXCEPT ![Frame(r)].docs = cStore,
                                        ![Frame(r)].chunks = a.chunks,
                                        ![Frame(r)].top = a.top,
                                        ![Frame(r)].prompt = a.prompt]
            /\ cOut' = [cOut EXCEPT ![r].docs = cStore,
                                    ![r].chunks = a.chunks,
                                    ![r].top = a.top,
                                    ![r].prompt = a.prompt]
            /\ cPc' = [cPc EXCEPT ![r] = "completing"]
  /\ UNCHANGED <<cStore, cBody>>
  /\ UNCHANGED <<postVars, chunkVars, retrVars, quizVars, chatVars>>

\* loadAllMdxDocuments() rejects for call r.
CLoadRejected(r) ==
  /\ cPc[r] = "loading"
  /\ \E e \in LoadErrors :
       /\ cEnv' = [cEnv EXCEPT ![r].load = "rejected", ![r].loadErr = e]
       /\ CCatch(r, e)
  /\ UNCHANGED <<cStore, cBody, cFrame>>
  /\ UNCHANGED <<postVars, chunkVars, retrVars, quizVars, chatVars>>

\* The completion service answers call r.
CServiceAnswers(r) ==
  /\ cPc[r] = "completing"
  /\ \E c \in Completions :
       /\ cEnv' = [cEnv EXCEPT ![r].service = "answered", ![r].completion = c]
       /\ IF Reply(c).threw
          THEN CCatch(r, Reply(c).err)
          ELSE /\ cOut' = [cOut EXCEPT ![r].response = JsonReply(Reply(c).value)]
               /\ cPc' = [cPc EXCEPT ![r] = "done"]
  /\ UNCHANGED <<cStore, cBody, cFrame>>
  /\ UNCHANGED <<postVars, chunkVars, retrVars, quizVars, chatVars>>

\* The completion call of call r fails or times out.
CServiceFails(r) ==
  /\ cPc[r] = "completing"
  /\ \E e \in ServiceErrors \cup {TimeoutError} :
       /\ cEnv' = [cEnv EXCEPT ![r].service = "failed", ![r].serviceErr = e]
       /\ CCatch(r, e)
  /\ UNCHANGED <<cStore, cBody, cFrame>>
  /\ UNCHANGED <<postVars, chunkVars, retrVars, quizVars, chatVars>>

\* The response of call r is delivered; its locals are gone.
CFinish(r) ==
  /\ cPc[r] = "done"
  /\ cPc' = [cPc EXCEPT ![r] = "idle"]
  /\ cBody' = [cBody EXCEPT ![r] = NoBody]
  /\ cEnv' = [cEnv EXCEPT ![r] = NoEnv]
  /\ cFrame' = [cFrame EXCEPT ![Frame(r)] = EmptyFrame]
  /\ cOut' = [cOut EXCEPT ![r] = NoOut]
  /\ UNCHANGED cStore
  /\ UNCHANGED <<postVars, chunkVars, retrVars, quizVars, chatVars>>

ConcNext ==
  \/ \E r \in Calls : CReceive(r)
  \/ \E r \in Calls : CParseBody(r)
  \/ \E r \in Calls : CLoadResolved(r)
  \/ \E r \in Calls : CLoadRejected(r)
  \/ \E r \in Calls : CServiceAnswers(r)
  \/ \E r \in Calls : CServiceFails(r)
  \/ \E r \in Calls : CFinish(r)

ConcSpec == ConcInit /\ [][ConcNext]_vars

\* ------------------------------------------- concurrency: the claim
\* What one call of POST hands on when nothing else runs: the stages in
\* order, as far as the loader and the service have answered.
RunAlone(st, b, env) ==
  LET m == Messages(b)
      lu == LastUser(m.items)
      sc == classifyScope(lu.value)
      a == AfterLoadOf[st, lu.value]
      loaded == [NoOut EXCEPT !.docs = st]
      called == [docs |-> st, chunks |-> a.chunks, top |-> a.top, prompt |-> a.prompt,
                 response |-> NoResponse]
  IN IF m.threw THEN [NoOut EXCEPT !.response = CatchResponse(m.err)]
     ELSE IF lu.threw THEN [NoOut EXCEPT !.response = CatchResponse(lu.err)]
     ELSE IF ~sc.allowed THEN [NoOut EXCEPT !.response = JsonReply(sc.refusal)]
     ELSE IF env.load = "none" THEN NoOut
     ELSE IF env.load = "rejected"
     THEN [NoOut EXCEPT !.response = CatchResponse(env.loadErr)]
     ELSE IF a.error
     THEN [loaded EXCEPT !.response =
             CatchResponse(Err("chunkOverlap must be smaller than chunkSize"))]
     ELSE IF env.service = "none" THEN called
     ELSE IF env.service = "failed"
     THEN [called EXCEPT !.response = CatchResponse(env.serviceErr)]
     ELSE IF Reply(env.completion).threw
     THEN [called EXCEPT !.response = CatchResponse(Reply(env.completion).err)]
     ELSE [called EXCEPT !.response = JsonReply(Reply(env.completion).value)]

\* C11: whatever the other call does in between, the documents, chunks,
\* retrieved chunks, prompts and response of a call are those of the same
\* request run alone against the same content with the same answers of the
\* loader and the completion service; and a step of one call leaves the
\* locals and the results of the other call as they are.
C11_CallsAreIndependent ==
  /\ [](\A r \in Calls :
          IF cPc[r] \in {"idle", "parsing"}
          THEN cOut[r] = NoOut
          ELSE cOut[r] = RunAlone(cStore, cBody[r], cEnv[r]))
  /\ [][\A r \in Calls :
          cPc'[r] = cPc[r] => (cFrame'[r] = cFrame[r] /\ cOut'[r] = cOut[r])]_vars

\* Call 1 has answered a question about "v" while call 2, which arrived
\* with a question about "k", waits for the completion service with other
\* chunks in its prompt.
C11_Witness ==
  /\ cPc[1] = "done"
  /\ cPc[2] = "completing"
  /\ cFrame[1].lastUser = <<"v">>
  /\ cFrame[2].lastUser = <<"k">>
  /\ cOut[1].response = JsonReply("answer")
  /\ cOut[1].top # <<>>
  /\ cOut[2].top # <<>>
  /\ cOut[1].top # cOut[2].top

\* ------------------------------------------------------ the chat panel
\* Requests one visit sends.
MaxSends == 2

\* What the visitor types: nothing, a blank, a word, a word between blanks,
\* another word.
ChatInputs == { <<>>, <<" ">>, <<"v">>, <<" ", "v", " ">>, <<"k">> }

\* String.prototype.trim
RECURSIVE TrimStart(_)
TrimStart(s) == IF s # <<>> /\ IsSpace(Head(s)) THEN TrimStart(Tail(s)) ELSE s

RECURSIVE TrimEnd(_)
TrimEnd(s) ==
  IF s # <<>> /\ IsSpace(s[Len(s)]) THEN TrimEnd(SubSeq(s, 1, Len(s) - 1)) ELSE s

Trim(s) == TrimEnd(TrimStart(s))

\* A message of the assistant; its text is kept whole.
AssistantMsg(t) == [null |-> FALSE, role |-> "assistant", content |-> <<t>>]

\* The message the panel opens with.
Greeting == AssistantMsg("Hi! Ask me an H2 Physics question.")

\* fetch rejects: the request never reached the server.
NetworkFailure == [status |-> 0, json |-> FALSE, payload |-> "Failed to fetch"]

\* What comes back for a request: a reply, an error response of the handler
\* (one with an empty text), or no response.
ChatAnswers ==
  { JsonReply("answer"), JsonReply(""),
    CatchResponse(Err("Request timed out.")), CatchResponse(Err("")),
    NetworkFailure }

\* res.ok
ResOk(res) == res.status >= 200 /\ res.status <= 299

\* err.message in the catch block of send.
DebugHint(res) ==
  IF res = NetworkFailure THEN res.payload
  ELSE IF res.payload = "" THEN "Request failed"
  ELSE res.payload

\* The assistant message send appends when the response is in.
AnswerMsg(res) ==
  IF ResOk(res) THEN AssistantMsg(res.payload)
  ELSE [null |-> FALSE, role |-> "assistant",
        content |-> <<"Sorry - something went wrong. Debug hint: ", DebugHint(res)>>]

\* The input counts as filled when it holds anything, blanks included.
CanSendUntrimmed(inp, ld) == Len(inp) > 0 /\ ~ld

\* const canSend
CanSend(inp, ld) == Len(Trim(inp)) > 0 /\ ~ld

\* The body carries the messages on screen, without the new one.
RequestBodyPriorOnly(msgs, userMsg) == ArrayBody(msgs)

\* body: JSON.stringify({ messages: [...messages, userMsg] })
RequestBody(msgs, userMsg) == ArrayBody(Append(msgs, userMsg))

\* s without its i-th element.
RemoveAt(s, i) == SubSeq(s, 1, i - 1) \o SubSeq(s, i + 1, Len(s))

\* The panel is mounted.
ChatInit ==
  /\ messages = <<Greeting>>
  /\ input = <<>>
  /\ loading = FALSE
  /\ flight = <<>>
  /\ sends = 0
  /\ chatLast = "mount"
  /\ store = <<>> /\ prev = NoPrev /\ Idle
  /\ ChunkOff /\ RetrOff /\ QuizOff /\ ConcOff

\* onChange of the input, which is disabled while loading.
ChatType(v) ==
  /\ chatLast # "off"
  /\ ~loading
  /\ input' = v
  /\ chatLast' = "type"
  /\ UNCHANGED <<messages, loading, flight, sends>>
  /\ UNCHANGED <<postVars, chunkVars, retrVars, quizVars, concVars>>

\* send() is called, by Enter in the input or by the Send button, and runs
\* up to its await: it returns at once unless canSend, else it appends the
\* user message, clears the input, sets loading and posts the request.
ChatSend ==
  /\ chatLast # "off"
  /\ IF ~CanSend(input, loading)
     THEN /\ chatLast' = "ignored"
          /\ UNCHANGED <<messages, input, loading, flight, sends>>
     ELSE /\ sends < MaxSends
          /\ messages' = Append(messages, UserMsg(Trim(input)))
          /\ input' = <<>>
          /\ loading' = TRUE
          /\ flight' = Append(flight, RequestBody(messages, UserMsg(Trim(input))))
          /\ sends' = sends + 1
          /\ chatLast' = "sent"
  /\ UNCHANGED <<postVars, chunkVars, retrVars, quizVars, concVars>>

\* The i-th request in flight is answered by res, and send runs from its
\* await to its end: it appends the reply or the apology and clears loading.
ChatAnswer(i, res) ==
  /\ chatLast # "off"
  /\ i \in 1..Len(flight)
  /\ messages' = Append(messages, AnswerMsg(res))
  /\ loading' = FALSE
  /\ flight' = RemoveAt(flight, i)
  /\ chatLast' = "answered"
  /\ UNCHANGED <<input, sends>>
  /\ UNCHANGED <<postVars, chunkVars, retrVars, quizVars, concVars>>

ChatNext ==
  \/ \E v \in ChatInputs : ChatType(v)
  \/ ChatSend
  \/ \E i \in 1..Len(flight), res \in ChatAnswers : ChatAnswer(i, res)

ChatSpec == ChatInit /\ [][ChatNext]_vars

\* C25: a call of send changes nothing when the trimmed input is empty or
\* a request is loading, and never more than one request is in flight.
C25_SendGuardedOneInFlight ==
  [][/\ (chatLast' \in {"sent", "ignored"} /\ (Trim(input) = <<>> \/ loading)) =>
          UNCHANGED <<messages, input, loading, flight, sends>>
     /\ Len(flight') <= 1]_vars

\* send was called while a request was in flight, and did nothing.
C25_Witness ==
  /\ chatLast = "ignored"
  /\ loading
  /\ Len(flight) = 1

\* C26: the body of every request sent is the message list as it was
\* followed by the new user message, whose content is the trimmed input
\* and not empty; and the lastUser that POST extracts from that body is
\* the content of that message.
C26_BodyEndsWithSentMessage ==
  [][Len(flight') > Len(flight) =>
       LET sent == flight'[Len(flight')]
           parsed == Messages(sent)
           extracted == LastUser(parsed.items)
       IN /\ sent = ArrayBody(Append(messages, UserMsg(Trim(input))))
          /\ Trim(input) # <<>>
          /\ ~parsed.threw
          /\ ~extracted.threw
          /\ extracted.value = parsed.items[Len(parsed.items)].content
          /\ extracted.value = Trim(input)
          /\ extracted.value # <<>>]_vars

\* The second request of a visit is in flight, its body holding the first
\* exchange.
C26_Witness ==
  /\ chatLast = "sent"
  /\ sends = 2
  /\ Len(flight) = 1
  /\ Len(flight[1].items) = 4

====
